---- MODULE Spec2Model ----
(***************************************************************************)
(* A model of myls (src/myls.c, src/myls.h): main, parse_options,          *)
(* gather_paths, sort_entries, read_directory, sort_file_list and the      *)
(* three qsort comparators.                                                *)
(*                                                                         *)
(* Strings are sequences of one-character strings, <<"-","a">> for "-a";   *)
(* a string literal of a printf format is kept as one element.  A line of  *)
(* output is the text printed before its "\n".                             *)
(*                                                                         *)
(* The file system is the environment.  What a path is (directory, other   *)
(* object, nothing) is fixed for a run and is decided the first time a     *)
(* system call looks at the path (fs).  Each readdir() returns one more    *)
(* entry of the directory, in an order the model does not fix.             *)
(***************************************************************************)
EXTENDS Integers, Sequences, FiniteSets, TLC

VARIABLES
    argv,           \* main's argv, argv[1] being C's argv[0]
    fs,             \* path -> "unknown" | "dir" | "file" | "none"
    disk,           \* the entries a directory of this run may hold
    pc,             \* where main is
    opts,           \* options_t opts
    gather_i,       \* gather_paths' loop index i (C index)
    total,          \* gather_paths' total
    dirs,           \* char* dirs[argc], the filled part
    dir_count,
    non_dirs,       \* char* non_dirs[argc], the filled part
    non_dir_count,
    main_i,         \* main's directory loop index i (C index)
    dirp,           \* read_directory's open stream: what readdir returned so far
    flist,          \* file_list_t flist
    out,            \* the lines written so far, each with its stream (1 stdout, 2 stderr)
    exit_code,      \* the process's exit status, -1 while it runs
    listings        \* history: what read_directory returned for each directory so far

vars == <<argv, fs, disk, pc, opts, gather_i, total, dirs, dir_count,
          non_dirs, non_dir_count, main_i, dirp, flist, out, exit_code, listings>>

----------------------------------------------------------------------------
(* The bound of the model and the program's constant *)

\* The longest command line: the number of arguments after the program name.
MaxArgs == 3

\* #define MAX_FILES 2000: the capacity of file_list_t, scaled down to 3 so
\* that the directories of the model can hold more entries than fit.
MAX_FILES == 3

----------------------------------------------------------------------------
(* Characters and strings *)

\* The byte value of each character the model uses (ASCII).
Ord == [c \in {"-", ".", "a", "b", "c", "d", "t", "x", "y"} |->
          CASE c = "-" -> 45 [] c = "." -> 46 [] c = "a" -> 97 [] c = "b" -> 98
            [] c = "c" -> 99 [] c = "d" -> 100
            [] c = "t" -> 116 [] c = "x" -> 120 [] c = "y" -> 121]

\* strcmp(3): the difference of the first two bytes that differ, the
\* terminating NUL counting as 0.
RECURSIVE strcmp(_, _)
strcmp(s1, s2) ==
    IF s1 = <<>> /\ s2 = <<>> THEN 0
    ELSE IF s1 = <<>> THEN 0 - Ord[Head(s2)]
    ELSE IF s2 = <<>> THEN Ord[Head(s1)]
    ELSE IF Head(s1) # Head(s2) THEN Ord[Head(s1)] - Ord[Head(s2)]
    ELSE strcmp(Tail(s1), Tail(s2))

\* argv[i][0] == '-'
is_option(tok) == Len(tok) > 0 /\ tok[1] = "-"

argc == Len(argv)
\* argv[i] for a C index i
Arg(i) == argv[i + 1]

----------------------------------------------------------------------------
(* parse_options *)

\* The inner loop over argv[i][j], j a C index, with the flags so far.
RECURSIVE parse_token(_, _, _)
parse_token(tok, j, o) ==
    IF j + 1 > Len(tok) THEN o
    ELSE IF tok[j + 1] = "a" THEN parse_token(tok, j + 1, [o EXCEPT !.show_all = TRUE])
    ELSE IF tok[j + 1] = "t" THEN parse_token(tok, j + 1, [o EXCEPT !.sort_time = TRUE])
    ELSE [o EXCEPT !.exited = TRUE, !.ch = tok[j + 1]]

\* The outer loop over argv[i], i a C index; stops at exit(1).
RECURSIVE parse_args(_, _, _)
parse_args(av, i, o) ==
    IF i >= Len(av) \/ o.exited THEN o
    ELSE IF is_option(av[i + 1]) THEN parse_args(av, i + 1, parse_token(av[i + 1], 1, o))
    ELSE parse_args(av, i + 1, o)

\* Mutant: an unrecognised option character is ignored.
parse_options_ignores_unknown(av) ==
    LET who == [k \in 1..Len(av) |->
                  IF k > 1 /\ is_option(av[k])
                  THEN SelectSeq(av[k], LAMBDA c : c \in {"-", "a", "t"})
                  ELSE av[k]]
    IN parse_args(who, 1, [show_all |-> FALSE, sort_time |-> FALSE,
                           exited |-> FALSE, ch |-> ""])

\* Mutant: only the first option token is scanned.
parse_options_first_token_only(av) ==
    LET first == IF \E k \in 2..Len(av) : is_option(av[k])
                 THEN CHOOSE k \in 2..Len(av) :
                        is_option(av[k]) /\ \A m \in 2..(k - 1) : ~is_option(av[m])
                 ELSE Len(av)
    IN parse_args(SubSeq(av, 1, first), 1,
                  [show_all |-> FALSE, sort_time |-> FALSE,
                   exited |-> FALSE, ch |-> ""])

\* options_t parse_options(argc, argv), with exited/ch telling whether and on
\* which character it called exit(1).
parse_options(av) ==
    parse_args(av, 1, [show_all |-> FALSE, sort_time |-> FALSE,
                       exited |-> FALSE, ch |-> ""])

----------------------------------------------------------------------------
(* Sorting *)

\* Mutant: oldest first.
cmp_file_time_ascending(fa, fb) ==
    IF fa.sec < fb.sec THEN -1
    ELSE IF fa.sec > fb.sec THEN 1
    ELSE IF fa.nsec < fb.nsec THEN 1
    ELSE IF fa.nsec > fb.nsec THEN -1
    ELSE strcmp(fa.name, fb.name)

cmp_lex(s1, s2) == strcmp(s1, s2)

cmp_file_time(fa, fb) ==
    IF fa.sec < fb.sec THEN 1
    ELSE IF fa.sec > fb.sec THEN -1
    ELSE IF fa.nsec < fb.nsec THEN 1
    ELSE IF fa.nsec > fb.nsec THEN -1
    ELSE strcmp(fa.name, fb.name)

cmp_file_lex(fa, fb) == strcmp(fa.name, fb.name)

\* A call through qsort's comparator pointer.
compar(cmp, a, b) ==
    CASE cmp = "cmp_lex" -> cmp_lex(a, b)
      [] cmp = "cmp_file_time" -> cmp_file_time(a, b)
      [] cmp = "cmp_file_lex" -> cmp_file_lex(a, b)

\* qsort(3) orders by the comparator alone; here by insertion.
RECURSIVE qsort_insert(_, _, _)
qsort_insert(x, sorted, cmp) ==
    IF sorted = <<>> THEN <<x>>
    ELSE IF compar(cmp, x, Head(sorted)) < 0 THEN <<x>> \o sorted
    ELSE <<Head(sorted)>> \o qsort_insert(x, Tail(sorted), cmp)

RECURSIVE qsort(_, _)
qsort(base, cmp) ==
    IF base = <<>> THEN <<>>
    ELSE qsort_insert(Head(base), qsort(Tail(base), cmp), cmp)

sort_entries(entries) == qsort(entries, "cmp_lex")

\* sort_file_list on the valid part of flist->files.
sort_file_list(files, sort_time) ==
    IF sort_time THEN qsort(files, "cmp_file_time")
    ELSE qsort(files, "cmp_file_lex")

----------------------------------------------------------------------------
(* The environment: command lines and file systems *)

ProgName == <<"./myls">>

\* The option tokens and operands a command line is made of.
OptionTokens == { <<"-">>, <<"-", "a">>, <<"-", "t">>, <<"-", "t", "a">>,
                  <<"-", "a", "y">>, <<"-", "y", "x">> }
OperandTokens == { <<"a", "t">>, <<"b">>, <<"d">> }
Tokens == OptionTokens \cup OperandTokens

\* The paths system calls are made on: the operands and the default ".".
Paths == OperandTokens \cup { <<".">> }

RECURSIVE SeqsUpTo(_, _)
SeqsUpTo(S, n) ==
    IF n = 0 THEN { <<>> }
    ELSE LET shorter == SeqsUpTo(S, n - 1)
         IN shorter \cup { Append(s, x) : s \in shorter, x \in S }

\* Every command line of at most MaxArgs arguments.
CommandLines == { <<ProgName>> \o s : s \in SeqsUpTo(Tokens, MaxArgs) }

\* struct dirent together with what lstat() on it gives.
Dirent(name, ok, sec, nsec) ==
    [name |-> name, ok |-> ok, sec |-> sec, nsec |-> nsec,
     is_dir |-> name \in { <<".">>, <<".", ".">> }]

\* A directory of a hidden and a visible entry, the hidden one older.
DiskSmall == { Dirent(<<".">>, TRUE, 1, 0), Dirent(<<"b">>, TRUE, 2, 0) }

\* Entries whose modification times differ in seconds, in nanoseconds only,
\* or not at all.
DiskTimes == { Dirent(n, TRUE, t[1], t[2]) :
                 n \in { <<"a">>, <<"a", "b">>, <<"b">> },
                 t \in { <<1, 0>>, <<1, 1>>, <<2, 0>> } }

\* More entries than MAX_FILES, some hidden, some that lstat() may fail on.
DiskMany == { Dirent(n, TRUE, 1, 0) :
                 n \in { <<".">>, <<".", ".">>, <<"a">>, <<"b">>, <<"c">> } }
            \cup
            { Dirent(n, FALSE, 0, 0) : n \in { <<".">>, <<"a">>, <<"b">> } }

\* The command lines run against the larger directories.
CommandLinesDir == { <<ProgName>>,
                     <<ProgName, <<"-", "a">> >>,
                     <<ProgName, <<"-", "t">> >>,
                     <<ProgName, <<"-", "y", "x">> >>,
                     <<ProgName, <<"-", "t", "a">>, <<"d">> >> }

NoDir == [path |-> <<>>, show_hidden |-> FALSE, trav |-> <<>>, mark |-> 0]

Start(av, dk) ==
    /\ argv = av
    /\ disk = dk
    /\ fs = [p \in Paths |-> "unknown"]
    /\ pc = "parse"
    /\ opts = [show_all |-> FALSE, sort_time |-> FALSE]
    /\ gather_i = 0
    /\ total = 0
    /\ dirs = <<>>
    /\ dir_count = 0
    /\ non_dirs = <<>>
    /\ non_dir_count = 0
    /\ main_i = 0
    /\ dirp = NoDir
    /\ flist = [files |-> <<>>, count |-> 0]
    /\ out = <<>>
    /\ exit_code = -1
    /\ listings = <<>>

\* Every command line of at most MaxArgs arguments on a small directory, and
\* a few command lines on directories that test the sort and the capacity.
Init ==
    \/ \E av \in CommandLines : Start(av, DiskSmall)
    \/ \E av \in CommandLinesDir, dk \in { DiskTimes, DiskMany } : Start(av, dk)

----------------------------------------------------------------------------
(* Output *)

Stdout(text) == [fd |-> 1, line |-> text]
Stderr(text) == [fd |-> 2, line |-> text]

\* printf("myls: invalid option -- %c\n", c)
InvalidOptionLine(c) == Stdout(<<"myls: invalid option -- ", c>>)

\* printf("myls: cannot access -- %s\n", argv[i])
CannotAccessOperandLine(path) == Stdout(<<"myls: cannot access -- ">> \o path)

\* fprintf(stderr, "myls: cannot access %s\n", path)
CannotAccessDirLine(path) == Stderr(<<"myls: cannot access ">> \o path)

\* printf("Warning: too many files in '%s' (max %d). Some entries skipped\n", path, MAX_FILES)
WarningLine(path) ==
    Stdout(<<"Warning: too many files in '">> \o path
           \o <<"' (max ", ToString(MAX_FILES), "). Some entries skipped">>)

\* printf("%s\n", s) for each s of a list
RECURSIVE NameLines(_)
NameLines(names) ==
    IF names = <<>> THEN <<>>
    ELSE <<Stdout(Head(names))>> \o NameLines(Tail(names))

\* printf("\n")
BlankLine == Stdout(<<>>)

\* printf("%s:\n", dirs[i])
HeaderLine(path) == Stdout(path \o <<":">>)

----------------------------------------------------------------------------
(* System calls *)

\* A system call finds the path to be of this kind: the kind it was found to
\* be before, or any kind when no call has looked at the path yet.
Finds(path, kind) == fs[path] \in { "unknown", kind }
Found(path, kind) == [fs EXCEPT ![path] = kind]

\* opendir() succeeds on a directory it may read.
opendir_ok(kind) == kind = "dir"
\* lstat() succeeds on whatever exists.
lstat_ok(kind) == kind \in { "dir", "file" }

----------------------------------------------------------------------------
(* main, lines 29-42: parse_options, then gather_paths *)

ParseOptions ==
    /\ pc = "parse"
    /\ LET o == parse_options(argv)
       IN IF o.exited
          THEN /\ out' = Append(out, InvalidOptionLine(o.ch))
               /\ exit_code' = 1
               /\ pc' = "exited"
               /\ UNCHANGED <<opts, gather_i, total, dir_count, non_dir_count>>
          ELSE /\ opts' = [show_all |-> o.show_all, sort_time |-> o.sort_time]
               /\ pc' = "gather"
               /\ gather_i' = 1
               /\ total' = 0
               /\ dir_count' = 0
               /\ non_dir_count' = 0
               /\ UNCHANGED <<out, exit_code>>
    /\ UNCHANGED <<argv, fs, disk, dirs, non_dirs, main_i, dirp, flist, listings>>

\* if(argv[i][0] == '-') continue;
GatherSkipOption ==
    /\ pc = "gather"
    /\ gather_i < argc
    /\ is_option(Arg(gather_i))
    /\ gather_i' = gather_i + 1
    /\ UNCHANGED <<argv, fs, disk, pc, opts, total, dirs, dir_count, non_dirs,
                   non_dir_count, main_i, dirp, flist, out, exit_code, listings>>

\* opendir(argv[i]) succeeds
GatherDirectory ==
    /\ pc = "gather"
    /\ gather_i < argc
    /\ ~is_option(Arg(gather_i))
    /\ \E kind \in { "dir", "file", "none" } :
          /\ Finds(Arg(gather_i), kind)
          /\ opendir_ok(kind)
          /\ fs' = Found(Arg(gather_i), kind)
    /\ dirs' = Append(dirs, Arg(gather_i))
    /\ dir_count' = dir_count + 1
    /\ total' = total + 1
    /\ gather_i' = gather_i + 1
    /\ UNCHANGED <<argv, disk, pc, opts, non_dirs, non_dir_count, main_i, dirp,
                   flist, out, exit_code, listings>>

\* Mutant: a plain file is not counted in total.
GatherFile_uncounted ==
    /\ pc = "gather"
    /\ gather_i < argc
    /\ ~is_option(Arg(gather_i))
    /\ \E kind \in { "dir", "file", "none" } :
          /\ Finds(Arg(gather_i), kind)
          /\ ~opendir_ok(kind)
          /\ lstat_ok(kind)
          /\ fs' = Found(Arg(gather_i), kind)
    /\ non_dirs' = Append(non_dirs, Arg(gather_i))
    /\ non_dir_count' = non_dir_count + 1
    /\ gather_i' = gather_i + 1
    /\ UNCHANGED <<argv, disk, pc, opts, total, dirs, dir_count, main_i, dirp, flist,
                   out, exit_code, listings>>

\* opendir(argv[i]) fails, lstat(argv[i]) succeeds
GatherFile ==
    /\ pc = "gather"
    /\ gather_i < argc
    /\ ~is_option(Arg(gather_i))
    /\ \E kind \in { "dir", "file", "none" } :
          /\ Finds(Arg(gather_i), kind)
          /\ ~opendir_ok(kind)
          /\ lstat_ok(kind)
          /\ fs' = Found(Arg(gather_i), kind)
    /\ non_dirs' = Append(non_dirs, Arg(gather_i))
    /\ non_dir_count' = non_dir_count + 1
    /\ total' = total + 1
    /\ gather_i' = gather_i + 1
    /\ UNCHANGED <<argv, disk, pc, opts, dirs, dir_count, main_i, dirp, flist, out,
                   exit_code, listings>>

\* opendir(argv[i]) and lstat(argv[i]) both fail
GatherInvalid ==
    /\ pc = "gather"
    /\ gather_i < argc
    /\ ~is_option(Arg(gather_i))
    /\ \E kind \in { "dir", "file", "none" } :
          /\ Finds(Arg(gather_i), kind)
          /\ ~opendir_ok(kind)
          /\ ~lstat_ok(kind)
          /\ fs' = Found(Arg(gather_i), kind)
    /\ out' = Append(out, CannotAccessOperandLine(Arg(gather_i)))
    /\ gather_i' = gather_i + 1
    /\ UNCHANGED <<argv, disk, pc, opts, total, dirs, dir_count, non_dirs,
                   non_dir_count, main_i, dirp, flist, exit_code, listings>>

\* Mutant: "." is the default whenever no directory was given.
GatherReturn_no_directory ==
    /\ pc = "gather"
    /\ gather_i >= argc
    /\ IF dir_count = 0
       THEN /\ dirs' = <<<<".">>>>
            /\ dir_count' = 1
            /\ total' = total + 1
       ELSE UNCHANGED <<dirs, dir_count, total>>
    /\ pc' = "print"
    /\ UNCHANGED <<argv, fs, disk, opts, gather_i, non_dirs, non_dir_count, main_i,
                   dirp, flist, out, exit_code, listings>>

\* The loop ends: the default ".", and the return to main.
GatherReturn ==
    /\ pc = "gather"
    /\ gather_i >= argc
    /\ IF total = 0
       THEN /\ dirs' = <<<<".">>>>
            /\ dir_count' = 1
            /\ total' = 1
       ELSE UNCHANGED <<dirs, dir_count, total>>
    /\ pc' = "print"
    /\ UNCHANGED <<argv, fs, disk, opts, gather_i, non_dirs, non_dir_count, main_i,
                   dirp, flist, out, exit_code, listings>>

----------------------------------------------------------------------------
(* main, lines 44-58: the operands are sorted, the plain files printed *)

PrintNonDirs ==
    /\ pc = "print"
    /\ LET sorted_non_dirs == IF non_dir_count > 1 THEN sort_entries(non_dirs)
                              ELSE non_dirs
       IN /\ non_dirs' = sorted_non_dirs
          /\ out' = out \o NameLines(sorted_non_dirs)
                        \o (IF non_dir_count > 0 /\ dir_count > 0
                            THEN <<BlankLine>> ELSE <<>>)
    /\ dirs' = IF dir_count > 1 THEN sort_entries(dirs) ELSE dirs
    /\ main_i' = 0
    /\ pc' = "loop"
    /\ UNCHANGED <<argv, fs, disk, opts, gather_i, total, dir_count, non_dir_count,
                   dirp, flist, exit_code, listings>>

----------------------------------------------------------------------------
(* main, lines 61-67, and read_directory *)

\* The header main prints before it calls read_directory.
Header == IF dir_count > 1 THEN <<HeaderLine(dirs[main_i + 1])>> ELSE <<>>

\* read_directory(dirs[i], opts.show_all): opendir(path) succeeds
OpenDirectory ==
    /\ pc = "loop"
    /\ main_i < dir_count
    /\ \E kind \in { "dir", "file", "none" } :
          /\ Finds(dirs[main_i + 1], kind)
          /\ opendir_ok(kind)
          /\ fs' = Found(dirs[main_i + 1], kind)
    /\ out' = out \o Header
    /\ flist' = [files |-> <<>>, count |-> 0]
    /\ dirp' = [path |-> dirs[main_i + 1], show_hidden |-> opts.show_all,
                trav |-> <<>>, mark |-> Len(out \o Header)]
    /\ pc' = "readdir"
    /\ UNCHANGED <<argv, disk, opts, gather_i, total, dirs, dir_count, non_dirs,
                   non_dir_count, main_i, exit_code, listings>>

\* read_directory: opendir(path) fails, the empty list is returned
OpenDirectoryFails ==
    /\ pc = "loop"
    /\ main_i < dir_count
    /\ \E kind \in { "dir", "file", "none" } :
          /\ Finds(dirs[main_i + 1], kind)
          /\ ~opendir_ok(kind)
          /\ fs' = Found(dirs[main_i + 1], kind)
    /\ out' = out \o Header \o <<CannotAccessDirLine(dirs[main_i + 1])>>
    /\ flist' = [files |-> <<>>, count |-> 0]
    /\ dirp' = [path |-> dirs[main_i + 1], show_hidden |-> opts.show_all,
                trav |-> <<>>, mark |-> Len(out \o Header)]
    /\ pc' = "list"
    /\ UNCHANGED <<argv, disk, opts, gather_i, total, dirs, dir_count, non_dirs,
                   non_dir_count, main_i, exit_code, listings>>

\* The entries readdir(dir) may return next: those of the directory it has
\* not returned yet.
NextEntries == { e \in disk : \A k \in 1..Len(dirp.trav) : dirp.trav[k].name # e.name }

\* Mutant: hidden entries are skipped whatever show_hidden is.
skip_hidden_always(show_hidden, d_name) == d_name[1] = "."

\* if(!show_hidden && entry->d_name[0] == '.') continue;
skip_hidden(show_hidden, d_name) == ~show_hidden /\ d_name[1] = "."

\* Mutant: one entry too many fits.
has_room_off_by_one(fl) == fl.count <= MAX_FILES

\* if(flist.count < MAX_FILES)
has_room(fl) == fl.count < MAX_FILES

\* file_info_t info: d_name fits info.name (NAME_MAX < PATH_MAX), so strncpy
\* copies it whole.
file_info(e) == [name |-> e.name, sec |-> e.sec, nsec |-> e.nsec, is_dir |-> e.is_dir]

Returned(e) == [dirp EXCEPT !.trav = Append(@, e)]

\* readdir returns a hidden entry and show_hidden is false
ReadSkipHidden ==
    /\ pc = "readdir"
    /\ \E e \in NextEntries :
          /\ skip_hidden(dirp.show_hidden, e.name)
          /\ dirp' = Returned(e)
    /\ UNCHANGED <<argv, fs, disk, pc, opts, gather_i, total, dirs, dir_count, non_dirs,
                   non_dir_count, main_i, flist, out, exit_code, listings>>

\* lstat(full_path) fails: nothing is added, nothing is said
ReadLstatFails ==
    /\ pc = "readdir"
    /\ \E e \in NextEntries :
          /\ ~skip_hidden(dirp.show_hidden, e.name)
          /\ ~e.ok
          /\ dirp' = Returned(e)
    /\ UNCHANGED <<argv, fs, disk, pc, opts, gather_i, total, dirs, dir_count, non_dirs,
                   non_dir_count, main_i, flist, out, exit_code, listings>>

\* flist.files[flist.count] = info; flist.count++;
ReadAppend ==
    /\ pc = "readdir"
    /\ \E e \in NextEntries :
          /\ ~skip_hidden(dirp.show_hidden, e.name)
          /\ e.ok
          /\ has_room(flist)
          /\ flist' = [files |-> Append(flist.files, file_info(e)),
                       count |-> flist.count + 1]
          /\ dirp' = Returned(e)
    /\ UNCHANGED <<argv, fs, disk, pc, opts, gather_i, total, dirs, dir_count, non_dirs,
                   non_dir_count, main_i, out, exit_code, listings>>

\* MAX_FILES exceeded: the warning
ReadOverflow ==
    /\ pc = "readdir"
    /\ \E e \in NextEntries :
          /\ ~skip_hidden(dirp.show_hidden, e.name)
          /\ e.ok
          /\ ~has_room(flist)
          /\ dirp' = Returned(e)
    /\ out' = Append(out, WarningLine(dirp.path))
    /\ UNCHANGED <<argv, fs, disk, pc, opts, gather_i, total, dirs, dir_count, non_dirs,
                   non_dir_count, main_i, flist, exit_code, listings>>

\* readdir returns NULL: closedir(dir); return flist;
ReadEnd ==
    /\ pc = "readdir"
    /\ pc' = "list"
    /\ UNCHANGED <<argv, fs, disk, opts, gather_i, total, dirs, dir_count, non_dirs,
                   non_dir_count, main_i, dirp, flist, out, exit_code, listings>>

----------------------------------------------------------------------------
(* main, lines 68-75 *)

RECURSIVE FileNames(_)
FileNames(files) ==
    IF files = <<>> THEN <<>> ELSE <<Head(files).name>> \o FileNames(Tail(files))

\* sort_file_list, the names printed, the blank line between directories
ListDirectory ==
    /\ pc = "list"
    /\ LET sorted == sort_file_list(flist.files, opts.sort_time)
       IN /\ flist' = [flist EXCEPT !.files = sorted]
          /\ out' = out \o NameLines(FileNames(sorted))
                        \o (IF main_i < dir_count - 1 THEN <<BlankLine>> ELSE <<>>)
    /\ listings' = Append(listings, [path |-> dirp.path, files |-> flist.files])
    /\ main_i' = main_i + 1
    /\ pc' = "loop"
    /\ UNCHANGED <<argv, fs, disk, opts, gather_i, total, dirs, dir_count, non_dirs,
                   non_dir_count, dirp, exit_code>>

\* return 0;
MainReturn ==
    /\ pc = "loop"
    /\ main_i >= dir_count
    /\ exit_code' = 0
    /\ pc' = "done"
    /\ UNCHANGED <<argv, fs, disk, opts, gather_i, total, dirs, dir_count, non_dirs,
                   non_dir_count, main_i, dirp, flist, out, listings>>

Next ==
    \/ ParseOptions
    \/ GatherSkipOption
    \/ GatherDirectory
    \/ GatherFile
    \/ GatherInvalid
    \/ GatherReturn
    \/ PrintNonDirs
    \/ OpenDirectory
    \/ OpenDirectoryFails
    \/ ReadSkipHidden
    \/ ReadLstatFails
    \/ ReadAppend
    \/ ReadOverflow
    \/ ReadEnd
    \/ ListDirectory
    \/ MainReturn

Spec == Init /\ [][Next]_vars

----------------------------------------------------------------------------
(* What the claims speak of, said without the program's own functions *)

Range(s) == { s[k] : k \in 1..Len(s) }

Count(s, x) == Cardinality({ k \in 1..Len(s) : s[k] = x })
IsPermutation(s, t) ==
    /\ Len(s) = Len(t)
    /\ \A x \in Range(s) \cup Range(t) : Count(s, x) = Count(t, x)

\* Byte-wise lexicographic order on strings.
LexLess(s, t) ==
    \E k \in 1..(Len(s) + 1) :
       /\ \A m \in 1..(k - 1) : m <= Len(t) /\ s[m] = t[m]
       /\ k <= Len(t)
       /\ (k <= Len(s) => Ord[s[k]] < Ord[t[k]])

\* The arguments that are option tokens, and the places of the characters
\* in them that are no flags.
OptionArgs(av) == { k \in 2..Len(av) : Len(av[k]) > 0 /\ av[k][1] = "-" }
InvalidAt(av) ==
    UNION { { <<k, j>> : j \in { j \in 2..Len(av[k]) : av[k][j] \notin { "a", "t" } } } :
            k \in OptionArgs(av) }
HasInvalidOption(av) == InvalidAt(av) # {}
FirstInvalid(av) ==
    LET p == CHOOSE p \in InvalidAt(av) :
                \A q \in InvalidAt(av) : p[1] < q[1] \/ (p[1] = q[1] /\ p[2] <= q[2])
    IN av[p[1]][p[2]]

\* The operands among argv[1] .. argv[i - 1] (C indices), in order.
OperandsBefore(av, i) ==
    SelectSeq(SubSeq(av, 2, i), LAMBDA tok : ~(Len(tok) > 0 /\ tok[1] = "-"))
Operands(av) == OperandsBefore(av, Len(av))

Hidden(name) == name[1] = "."

\* The entries of a traversal that are neither filtered out as hidden nor
\* refused by lstat, in traversal order.
Accepted(trav, show_hidden) ==
    SelectSeq(trav, LAMBDA e : e.ok /\ (show_hidden \/ ~Hidden(e.name)))

Min(a, b) == IF a < b THEN a ELSE b

\* The order the sort is to give: newer first, then by name; or by name.
Precedes(a, b, sort_time) ==
    IF sort_time
    THEN \/ a.sec > b.sec
         \/ a.sec = b.sec /\ a.nsec > b.nsec
         \/ a.sec = b.sec /\ a.nsec = b.nsec /\ LexLess(a.name, b.name)
    ELSE LexLess(a.name, b.name)

StrictlyOrdered(files, sort_time) ==
    \A m, n \in 1..Len(files) : m < n => Precedes(files[m], files[n], sort_time)

Ascending(names) ==
    \A m, n \in 1..Len(names) : m < n => (names[m] = names[n] \/ LexLess(names[m], names[n]))

\* What the program wrote to one stream, as text.
Written(fd) ==
    LET sel == SelectSeq(out, LAMBDA l : l.fd = fd)
    IN [k \in 1..Len(sel) |-> sel[k].line]

IsWarning(text) == Len(text) > 0 /\ text[1] = "Warning: too many files in '"
IsCannotAccessOperand(text) == Len(text) > 0 /\ text[1] = "myls: cannot access -- "

----------------------------------------------------------------------------
(* C1 *)

\* C1: when some option token holds a character other than 'a' and 't', the
\* program prints "myls: invalid option -- <c>" for the first such character
\* (by token, then by place in the token), exits with status 1, and does
\* nothing else: no operand is looked at, nothing else is written.
C1_InvalidOptionExits ==
    (pc # "parse" /\ HasInvalidOption(argv)) =>
        /\ pc = "exited"
        /\ exit_code = 1
        /\ Len(out) = 1
        /\ out[1].line = <<"myls: invalid option -- ", FirstInvalid(argv)>>
        /\ \A p \in Paths : fs[p] = "unknown"
        /\ dirs = <<>> /\ non_dirs = <<>> /\ listings = <<>>

\* An operand and a valid flag precede the token "-yx".
C1_Witness ==
    /\ pc = "exited"
    /\ Len(argv) = 4
    /\ argv[2] = <<"d">>
    /\ argv[3] = <<"-", "a">>
    /\ argv[4] = <<"-", "y", "x">>
    /\ out[1].line = <<"myls: invalid option -- ", "y">>

----------------------------------------------------------------------------
(* C2 *)

\* C2: when every character after the '-' of every option token is 'a' or
\* 't', parse_options returns show_all = TRUE iff some option token holds an
\* 'a' and sort_time = TRUE iff some option token holds a 't'; the other
\* arguments do not count, and the program does not exit in parse_options.
C2_FlagsParsed ==
    (pc # "parse" /\ ~HasInvalidOption(argv)) =>
        /\ pc # "exited"
        /\ opts.show_all = (\E k \in OptionArgs(argv) : "a" \in Range(argv[k]))
        /\ opts.sort_time = (\E k \in OptionArgs(argv) : "t" \in Range(argv[k]))

\* The operand "at", then "-t", then the empty flag token "-".
C2_Witness ==
    /\ pc = "gather"
    /\ Len(argv) = 4
    /\ argv[2] = <<"a", "t">>
    /\ argv[3] = <<"-", "t">>
    /\ argv[4] = <<"-">>
    /\ opts = [show_all |-> FALSE, sort_time |-> TRUE]

----------------------------------------------------------------------------
(* C3 *)

\* C3: while gather_paths runs, of the operands it has been through, those
\* that open as a directory are dirs, in order, those that do not but exist
\* are non_dirs, in order, and each of the others has its one diagnostic
\* line; so no operand is in both collections, dir_count + non_dir_count +
\* the number of diagnostics is the number of operands gone through, and
\* total = dir_count + non_dir_count, also once gather_paths has returned.
C3_OperandsClassified ==
    /\ pc = "gather" =>
         LET ops == OperandsBefore(argv, gather_i)
             rejected == SelectSeq(ops, LAMBDA p : fs[p] = "none")
         IN /\ \A k \in 1..Len(ops) : fs[ops[k]] \in { "dir", "file", "none" }
            /\ dirs = SelectSeq(ops, LAMBDA p : fs[p] = "dir")
            /\ non_dirs = SelectSeq(ops, LAMBDA p : fs[p] = "file")
            /\ Len(out) = Len(rejected)
            /\ \A k \in 1..Len(rejected) :
                  out[k].line = <<"myls: cannot access -- ">> \o rejected[k]
            /\ dir_count = Len(dirs)
            /\ non_dir_count = Len(non_dirs)
            /\ Range(dirs) \cap Range(non_dirs) = {}
            /\ dir_count + non_dir_count + Len(out) = Len(ops)
            /\ total = dir_count + non_dir_count
    /\ pc \in { "print", "loop", "readdir", "list", "done" } =>
         /\ total = dir_count + non_dir_count
         /\ dir_count = Len(dirs)
         /\ non_dir_count = Len(non_dirs)

\* The loop is over three operands: a directory, a plain file, a rejected one.
C3_Witness ==
    /\ pc = "gather"
    /\ gather_i = argc
    /\ Len(Operands(argv)) = 3
    /\ dir_count = 1
    /\ non_dir_count = 1
    /\ Len(out) = 1

----------------------------------------------------------------------------
(* C4 *)

\* C4: once gather_paths has returned, if no operand was accepted then dirs
\* is [ "." ], non_dirs is empty and total is 1; otherwise "." was not added:
\* the two collections hold the accepted operands and nothing else, and total
\* is their number.
C4_DefaultDirectory ==
    pc \in { "print", "loop", "readdir", "list", "done" } =>
        LET accepted == SelectSeq(Operands(argv), LAMBDA p : fs[p] \in { "dir", "file" })
        IN IF accepted = <<>>
           THEN /\ dirs = << <<".">> >>
                /\ dir_count = 1
                /\ non_dirs = <<>>
                /\ non_dir_count = 0
                /\ total = 1
           ELSE /\ <<".">> \notin Range(dirs) \cup Range(non_dirs)
                /\ IsPermutation(dirs \o non_dirs, accepted)
                /\ total = Len(accepted)

\* Operands were given and every one was rejected.
C4_Witness ==
    /\ pc = "print"
    /\ Len(Operands(argv)) = 2
    /\ \A p \in Range(Operands(argv)) : fs[p] = "none"
    /\ dirs = << <<".">> >>
    /\ total = 1

----------------------------------------------------------------------------
(* C5 *)

\* The one arrangement of a list of entries of distinct names that is in order.
Ordered(files, sort_time) ==
    LET n == Len(files)
    IN CHOOSE s \in { [k \in 1..n |-> files[f[k]]] : f \in Permutations(1..n) } :
          StrictlyOrdered(s, sort_time)

\* The lines of directory k (from 1) of the layout: its header when there are
\* several directories, the names of its entries in order, a blank line
\* unless it is the last.
RECURSIVE Sections(_)
Sections(k) ==
    IF k > dir_count THEN <<>>
    ELSE (IF dir_count > 1 THEN <<dirs[k] \o <<":">> >> ELSE <<>>)
         \o FileNames(Ordered(listings[k].files, opts.sort_time))
         \o (IF k < dir_count THEN << <<>> >> ELSE <<>>)
         \o Sections(k + 1)

Layout ==
    non_dirs
    \o (IF non_dir_count > 0 /\ dir_count > 0 THEN << <<>> >> ELSE <<>>)
    \o Sections(1)

\* The operands are printed in ascending order whatever their order on the
\* command line was, and each directory of dirs was read in its turn.
OperandsInOrder ==
    /\ Ascending(non_dirs)
    /\ Ascending(dirs)
    /\ IsPermutation(non_dirs, SelectSeq(Operands(argv), LAMBDA p : fs[p] = "file"))
    /\ \/ IsPermutation(dirs, SelectSeq(Operands(argv), LAMBDA p : fs[p] = "dir"))
       \/ dirs = << <<".">> >>
    /\ Len(listings) = dir_count
    /\ \A k \in 1..dir_count : listings[k].path = dirs[k]

\* C5: a run that ends without an invalid option has written to standard
\* output the accepted plain files in ascending order, one blank line iff
\* there are both plain files and directories, then each directory in
\* ascending order: its header iff there are several directories, its entry
\* names, one blank line iff it is not the last directory.
C5_StdoutLayout ==
    pc = "done" => (OperandsInOrder /\ Written(1) = Layout)

\* The same of the lines of standard output that are no diagnostics (neither
\* "myls: cannot access -- ..." nor the capacity warning).
C5_ListingLayout ==
    pc = "done" =>
        /\ OperandsInOrder
        /\ SelectSeq(Written(1),
                     LAMBDA t : ~IsWarning(t) /\ ~IsCannotAccessOperand(t)) = Layout

\* Two plain files and a directory, given in descending order.
C5_ListingWitness ==
    /\ pc = "done"
    /\ non_dir_count = 2
    /\ dir_count = 1
    /\ Operands(argv) = << <<"d">>, <<"b">>, <<"a", "t">> >>
    /\ non_dirs = << <<"a", "t">>, <<"b">> >>

----------------------------------------------------------------------------
(* C6 *)

\* C6: sort_file_list gives a permutation of the list read_directory returned
\* (whose names are pairwise distinct) that is strictly in order: by name
\* ascending when sort_time is false; when it is true the larger seconds
\* first, among equal seconds the larger nanoseconds first, among equal times
\* the smaller name first.  Sorting the sorted list again changes nothing.
C6_SortFileList ==
    (pc = "loop" /\ main_i > 0) =>
        LET before == listings[main_i].files
        IN /\ \A m, n \in 1..Len(before) : m # n => before[m].name # before[n].name
           /\ IsPermutation(flist.files, before)
           /\ StrictlyOrdered(flist.files, opts.sort_time)
           /\ sort_file_list(flist.files, opts.sort_time) = flist.files

\* Three entries sorted by time into another order than they were read in,
\* two of them of the same second, two of them of the same time.
C6_Witness ==
    /\ pc = "loop" /\ main_i > 0
    /\ opts.sort_time
    /\ Len(flist.files) = 3
    /\ flist.files # listings[main_i].files
    /\ flist.files[1].sec = flist.files[2].sec
    /\ flist.files[1].nsec > flist.files[2].nsec
    /\ flist.files[2].nsec = flist.files[3].nsec
    /\ flist.files[2].sec = flist.files[3].sec

----------------------------------------------------------------------------
(* C7 *)

\* C7: in read_directory show_hidden is main's show_all; no entry whose name
\* begins with '.' is in the list unless show_hidden is true; and when it is
\* true, every entry readdir returned and lstat accepted is in the list if
\* fewer than MAX_FILES such entries came before it, hidden or not.
C7_HiddenEntries ==
    pc \in { "readdir", "list" } =>
        /\ dirp.show_hidden = opts.show_all
        /\ \A k \in 1..Len(flist.files) :
              Hidden(flist.files[k].name) => dirp.show_hidden
        /\ dirp.show_hidden =>
              \A k \in 1..Len(dirp.trav) :
                 (/\ dirp.trav[k].ok
                  /\ Cardinality({ m \in 1..(k - 1) : dirp.trav[m].ok }) < MAX_FILES)
                 => \E m \in 1..Len(flist.files) : flist.files[m].name = dirp.trav[k].name

\* Without -a: hidden entries were returned by readdir and none is listed.
C7_Witness ==
    /\ pc = "list"
    /\ ~dirp.show_hidden
    /\ \E k \in 1..Len(dirp.trav) : Hidden(dirp.trav[k].name) /\ dirp.trav[k].ok
    /\ flist.count = 2

\* With -a: "." and ".." are listed.
C7_WitnessShown ==
    /\ pc = "list"
    /\ dirp.show_hidden
    /\ \E k \in 1..Len(flist.files) : flist.files[k].name = <<".">>
    /\ \E k \in 1..Len(flist.files) : flist.files[k].name = <<".", ".">>

----------------------------------------------------------------------------
(* C8 *)

\* C8: for each operand that neither opens as a directory nor can be
\* lstat-ed, "myls: cannot access -- <operand>" is written to the error
\* stream and not to standard output, the other operands are classified all
\* the same, and the run ends with exit status 0.
C8_DiagnosticOnStderr ==
    pc = "done" =>
        /\ exit_code = 0
        /\ \A p \in Range(Operands(argv)) :
              /\ fs[p] # "unknown"
              /\ fs[p] = "none" =>
                    /\ \E k \in 1..Len(out) :
                          out[k] = [fd |-> 2, line |-> <<"myls: cannot access -- ">> \o p]
                    /\ \A k \in 1..Len(out) :
                          out[k] # [fd |-> 1, line |-> <<"myls: cannot access -- ">> \o p]

\* What the program does of it: the diagnostic is written, to some stream,
\* the other operands are classified, the exit status is 0.
C8_DiagnosticWritten ==
    pc = "done" =>
        /\ exit_code = 0
        /\ \A p \in Range(Operands(argv)) :
              /\ fs[p] # "unknown"
              /\ fs[p] = "none" =>
                    \E k \in 1..Len(out) :
                       out[k].line = <<"myls: cannot access -- ">> \o p

----------------------------------------------------------------------------
(* C9 *)

\* C9: throughout read_directory and in what it returns, 0 <= count <=
\* MAX_FILES, and the list holds the first MAX_FILES accepted entries (not
\* filtered as hidden, lstat succeeded) in traversal order, or all of them
\* when they are fewer; an entry lstat fails on takes no room.
C9_Capacity ==
    /\ flist.count \in 0..MAX_FILES
    /\ pc \in { "readdir", "list" } =>
          LET acc == Accepted(dirp.trav, dirp.show_hidden)
          IN /\ Len(flist.files) = flist.count
             /\ flist.count = Min(Len(acc), MAX_FILES)
             /\ \A k \in 1..flist.count :
                   /\ flist.files[k].name = acc[k].name
                   /\ flist.files[k].sec = acc[k].sec
                   /\ flist.files[k].nsec = acc[k].nsec

\* More accepted entries than MAX_FILES, after an entry lstat failed on.
C9_Witness ==
    /\ pc = "list"
    /\ Len(Accepted(dirp.trav, dirp.show_hidden)) > MAX_FILES
    /\ ~dirp.trav[1].ok
    /\ flist.count = MAX_FILES

----------------------------------------------------------------------------
(* C10 *)

\* The capacity warnings of the read_directory call that is running or has
\* just returned.
Warnings ==
    SelectSeq(SubSeq(out, dirp.mark + 1, Len(out)), LAMBDA l : IsWarning(l.line))

\* C10: read_directory writes the capacity warning exactly once for a
\* directory of more accepted entries than MAX_FILES, however many entries it
\* drops, and not at all for a directory of at most MAX_FILES accepted
\* entries.
C10_OneWarning ==
    pc = "list" =>
        Len(Warnings) = (IF Len(Accepted(dirp.trav, dirp.show_hidden)) > MAX_FILES
                         THEN 1 ELSE 0)

\* What the program does: one warning for each entry it drops.
C10_WarningPerDroppedEntry ==
    pc \in { "readdir", "list" } =>
        LET n == Len(Accepted(dirp.trav, dirp.show_hidden))
        IN /\ Len(Warnings) = (IF n > MAX_FILES THEN n - MAX_FILES ELSE 0)
           /\ \A k \in 1..Len(Warnings) : Warnings[k] = WarningLine(dirp.path)

====
